---- MODULE Spec2Model ----
(***************************************************************************)
(* Route planning of src/app.js ("middle out", nearest end).               *)
(*                                                                         *)
(* A truck object is identified by its id (ids are assigned once, line 61, *)
(* and are unique); pos gives the x and y of each truck.  An array is a    *)
(* cell of heap holding a sequence of truck ids, so that two names bound   *)
(* to the same array (list and displayedList at lines 40 and 49) see each  *)
(* other's writes.                                                         *)
(*                                                                         *)
(* Numbers.  Coordinates are kept in half pixels (Coord), so that the      *)
(* midpoint (min+max)/2 of line 151 is an exact integer.  A distance is    *)
(* kept as its radicand dx*dx + dy*dy: Math.sqrt is strictly increasing,   *)
(* and the code only compares distances with <.                            *)
(***************************************************************************)
EXTENDS Integers, Sequences, FiniteSets, TLC

\* Number of truck objects the planner's inputs are drawn from.
NumTrucks == 3

\* Number of points in the inputs of middlePoint and closest taken alone.
MaxPoints == 4

\* Pixel coordinates the trucks are placed on.
XS == {0, 5, 10}
YS == {0, 1, 3}
\* Pixel ordinates of the inputs of middlePoint and closest taken alone.
SquareYS == {0, 10}

\* A pixel value in the model's unit (half pixels).
Coord(v) == 2 * v

Ids == 1..NumTrucks

VARIABLES
    pos,            \* truck id -> [x, y]: the x and y fields of the truck objects
    heap,           \* array reference -> sequence of truck ids
    list,           \* planRoute's parameter: Undefined or an array reference
    displayedList,  \* the global of line 21: Undefined or an array reference
    source,         \* planRoute's local (line 129): an array reference
    dest,           \* planRoute's local (line 135): the route built so far
    ret,            \* what the call gave back: a value, or the exception
    pc,             \* position in the call
    target,         \* closest's second argument (calls of closest taken alone)
    supplied,       \* the caller's array as it was when the call was made
    fullList,       \* the global of line 20: Undefined or an array reference
    lines,          \* the line elements of the SVG, in document order
    event           \* the last handler of the page that ran

\* The state of the page outside a call of planRoute.
page == <<fullList, lines, event>>

vars == <<pos, heap, list, displayedList, source, dest, ret, pc, target, supplied,
          fullList, lines, event>>

Undefined == "undefined"
NoRef == "none"
Refs == {"arg", "src"}

\* Values of ret.
Pending == [kind |-> "pending", val |-> <<>>]
RetUndefined == [kind |-> "undefined", val |-> <<>>]
RetNull == [kind |-> "null", val |-> <<>>]
RetArray(s) == [kind |-> "array", val |-> s]
TypeError == [kind |-> "TypeError", val |-> <<>>]

----------------------------------------------------------------------------
(* Helpers *)

SetMin(S) == CHOOSE m \in S : \A n \in S : m <= n
SetMax(S) == CHOOSE m \in S : \A n \in S : m >= n
Range(s) == {s[i] : i \in DOMAIN s}
Injective(s) == \A i, j \in DOMAIN s : s[i] = s[j] => i = j

\* Arrays of distinct trucks, of every length and in every order.
TruckLists(S) == UNION {{s \in [1..n -> S] : Injective(s)} : n \in 0..Cardinality(S)}

----------------------------------------------------------------------------
(* The functions of src/app.js, lines 124-188.  An array argument is the    *)
(* sequence of ids it holds; a point is a pair <<x, y>>.                    *)

NaN == -1

\* Variant of middlePoint: the average of the set instead of the centre of
\* its bounding box.
meanPoint(trucks) ==
    IF trucks = <<>> THEN <<NaN, NaN>>
    ELSE LET Sum[i \in 0..Len(trucks)] ==
                 IF i = 0 THEN <<0, 0>>
                 ELSE <<Sum[i-1][1] + pos[trucks[i]].x, Sum[i-1][2] + pos[trucks[i]].y>>
         IN  <<Sum[Len(trucks)][1] \div Len(trucks), Sum[Len(trucks)][2] \div Len(trucks)>>

\* Lines 148-152: centre of the bounding box.  Math.min() and Math.max() of
\* no arguments are Infinity and -Infinity, whose sum is NaN.
middlePoint(trucks) ==
    IF trucks = <<>> THEN <<NaN, NaN>>
    ELSE LET xs == {pos[trucks[i]].x : i \in DOMAIN trucks}
             ys == {pos[trucks[i]].y : i \in DOMAIN trucks}
         IN  <<(SetMin(xs) + SetMax(xs)) \div 2, (SetMin(ys) + SetMax(ys)) \div 2>>

\* Lines 159-161 (the radicand of the distance).
distance(p, id) ==
    LET dx == p[1] - pos[id].x
        dy == p[2] - pos[id].y
    IN  (dx * dx) + (dy * dy)

\* closest's null, and its [id, distance].
Null == [found |-> FALSE, id |-> 0, distance |-> 0]
Pair(i, d) == [found |-> TRUE, id |-> i, distance |-> d]

\* Variant of closestStep: <= for <, the last of the nearest points wins.
closestLastStep(acc, id, p) ==
    IF ~acc.found THEN Pair(id, distance(p, id))
    ELSE IF distance(p, id) <= acc.distance THEN Pair(id, distance(p, id))
    ELSE acc

\* Variant of closestStep: the result so far is never replaced.
closestKeepFirst(acc, id, p) ==
    IF ~acc.found THEN Pair(id, distance(p, id))
    ELSE acc

\* Lines 158-165: the callback of reduce, acc being the result so far.
closestStep(acc, id, p) ==
    IF ~acc.found THEN Pair(id, distance(p, id))
    ELSE IF distance(p, id) < acc.distance THEN Pair(id, distance(p, id))
    ELSE acc

\* Lines 156-166.
closest(trucks, p) ==
    IF Len(trucks) = 0 THEN Null
    ELSE LET Acc[i \in 0..Len(trucks)] ==
                 IF i = 0 THEN Null ELSE closestStep(Acc[i-1], trucks[i], p)
         IN  Acc[Len(trucks)]

\* Variant of extract: splice(index, 2), the next entry is removed as well.
extractTwo(trucks, id) ==
    LET hits == {i \in DOMAIN trucks : trucks[i] = id}
    IN  IF hits = {} THEN [item |-> 0, rest |-> trucks]
        ELSE LET index == SetMin(hits)
             IN  [item |-> trucks[index],
                  rest |-> [i \in 1..SetMax({0, Len(trucks) - 2}) |->
                               IF i < index THEN trucks[i] ELSE trucks[i+2]]]

\* Lines 184-188: the removed entry (0 for null) and what is left of the array.
extract(trucks, id) ==
    LET hits == {i \in DOMAIN trucks : trucks[i] = id}
    IN  IF hits = {} THEN [item |-> 0, rest |-> trucks]
        ELSE LET index == SetMin(hits)
             IN  [item |-> trucks[index],
                  rest |-> [i \in 1..(Len(trucks) - 1) |->
                               IF i < index THEN trucks[i] ELSE trucks[i+1]]]

\* Variant of shiftClosestTruck: <= for <, a tie extends the head.
shiftClosestTruckHeadOnTie(src, dst) ==
    LET head == dst[1]
        tail == dst[Len(dst)]
        nextHead == closest(src, <<pos[head].x, pos[head].y>>)
        nextTail == closest(src, <<pos[tail].x, pos[tail].y>>)
    IN  IF nextHead.distance <= nextTail.distance
        THEN [source |-> extract(src, nextHead.id).rest,
              dest |-> <<extract(src, nextHead.id).item>> \o dst]
        ELSE [source |-> extract(src, nextTail.id).rest,
              dest |-> Append(dst, extract(src, nextTail.id).item)]

\* Variant of shiftClosestTruck: the truck taken for the head is put behind
\* the head, inside the route.
shiftClosestTruckInside(src, dst) ==
    LET head == dst[1]
        tail == dst[Len(dst)]
        nextHead == closest(src, <<pos[head].x, pos[head].y>>)
        nextTail == closest(src, <<pos[tail].x, pos[tail].y>>)
    IN  IF nextHead.distance < nextTail.distance
        THEN [source |-> extract(src, nextHead.id).rest,
              dest |-> <<head, extract(src, nextHead.id).item>> \o Tail(dst)]
        ELSE [source |-> extract(src, nextTail.id).rest,
              dest |-> Append(dst, extract(src, nextTail.id).item)]

\* Variant of shiftClosestTruck: the truck taken for the tail stays in the
\* pool.
shiftClosestTruckKeep(src, dst) ==
    LET head == dst[1]
        tail == dst[Len(dst)]
        nextHead == closest(src, <<pos[head].x, pos[head].y>>)
        nextTail == closest(src, <<pos[tail].x, pos[tail].y>>)
    IN  IF nextHead.distance < nextTail.distance
        THEN [source |-> extract(src, nextHead.id).rest,
              dest |-> <<extract(src, nextHead.id).item>> \o dst]
        ELSE [source |-> src,
              dest |-> Append(dst, extract(src, nextTail.id).item)]

\* Lines 171-181, for a non-empty source: the two arrays after the call.
shiftClosestTruck(src, dst) ==
    LET head == dst[1]
        tail == dst[Len(dst)]
        nextHead == closest(src, <<pos[head].x, pos[head].y>>)
        nextTail == closest(src, <<pos[tail].x, pos[tail].y>>)
    IN  IF nextHead.distance < nextTail.distance
        THEN [source |-> extract(src, nextHead.id).rest,
              dest |-> <<extract(src, nextHead.id).item>> \o dst]
        ELSE [source |-> extract(src, nextTail.id).rest,
              dest |-> Append(dst, extract(src, nextTail.id).item)]

\* Variant of slice: slice(1), the copy lacks the first entry.
sliceRest(h, r) == [ref |-> "src", heap |-> [h EXCEPT !["src"] = Tail(h[r])]]

\* Variant of slice: no copy, source is the array of displayedList itself.
sliceAlias(h, r) == [ref |-> r, heap |-> h]

\* Line 129, displayedList.slice(0): a new array with the same entries.
slice(h, r) == [ref |-> "src", heap |-> [h EXCEPT !["src"] = h[r]]]

\* Line 142: the loop, run to its end.
RECURSIVE shiftAll(_, _)
shiftAll(src, dst) ==
    IF Len(src) = 0 THEN dst
    ELSE LET shifted == shiftClosestTruck(src, dst)
         IN  shiftAll(shifted.source, shifted.dest)

\* The value of the global displayedList: undefined, or the array it refers to.
GlobalValue(h, d) == IF d = Undefined THEN RetUndefined ELSE RetArray(h[d])

\* Lines 126-145 as one function of the argument and of the global's value:
\* what the call gives back.
planRoute(argument, displayed) ==
    IF displayed.kind = "undefined" THEN TypeError
    ELSE IF Len(displayed.val) < 2 THEN RetUndefined
    ELSE LET middle == closest(displayed.val, middlePoint(displayed.val))
             first == extract(displayed.val, middle.id)
             second == closest(first.rest, <<pos[first.item].x, pos[first.item].y>>)
             next == extract(first.rest, second.id)
         IN  RetArray(shiftAll(next.rest, <<first.item, next.item>>))


----------------------------------------------------------------------------
(* A call planRoute(list), lines 126-145, one step per removal.             *)

\* The call is one of lines 40 and 49, planRoute(displayedList): the argument
\* is the global itself, which holds the array of the displayed trucks, or
\* undefined as long as line 34 has not run.
Init ==
    /\ pos \in [Ids -> [x : {Coord(v) : v \in XS}, y : {Coord(v) : v \in YS}]]
    /\ displayedList \in {Undefined, "arg"}
    /\ list = displayedList
    /\ \E a \in (IF displayedList = "arg" THEN TruckLists(Ids) ELSE {<<>>}) :
         /\ heap = [r \in Refs |-> IF r = "arg" THEN a ELSE <<>>]
         /\ supplied = a
    /\ source = NoRef
    /\ dest = <<>>
    /\ ret = Pending
    /\ pc = "call"
    /\ target = <<0, 0>>
    /\ fullList = Undefined
    /\ lines = <<>>
    /\ event = "none"

\* Lines 127-129.  Reading .length of undefined throws a TypeError.
planRouteEnter ==
    /\ pc = "call"
    /\ IF displayedList = Undefined
       THEN /\ ret' = TypeError
            /\ pc' = "threw"
            /\ UNCHANGED <<heap, source>>
       ELSE IF Len(heap[displayedList]) < 2
       THEN /\ ret' = RetUndefined
            /\ pc' = "returned"
            /\ UNCHANGED <<heap, source>>
       ELSE /\ source' = slice(heap, displayedList).ref
            /\ heap' = slice(heap, displayedList).heap
            /\ pc' = "middle"
            /\ UNCHANGED ret
    /\ UNCHANGED <<pos, list, displayedList, dest, target, supplied, page>>

\* Lines 132-135.  Destructuring closest's null throws a TypeError.
planRouteMiddle ==
    /\ pc = "middle"
    /\ LET found == closest(heap[source], middlePoint(heap[displayedList]))
       IN  IF ~found.found
           THEN /\ ret' = TypeError
                /\ pc' = "threw"
                /\ UNCHANGED <<heap, dest>>
           ELSE /\ dest' = <<extract(heap[source], found.id).item>>
                /\ heap' = [heap EXCEPT ![source] = extract(heap[source], found.id).rest]
                /\ pc' = "second"
                /\ UNCHANGED ret
    /\ UNCHANGED <<pos, list, displayedList, source, target, supplied, page>>

\* Lines 138-139.
planRouteSecond ==
    /\ pc = "second"
    /\ LET middleTruck == dest[1]
           found == closest(heap[source], <<pos[middleTruck].x, pos[middleTruck].y>>)
       IN  IF ~found.found
           THEN /\ ret' = TypeError
                /\ pc' = "threw"
                /\ UNCHANGED <<heap, dest>>
           ELSE /\ dest' = Append(dest, extract(heap[source], found.id).item)
                /\ heap' = [heap EXCEPT ![source] = extract(heap[source], found.id).rest]
                /\ pc' = "loop"
                /\ UNCHANGED ret
    /\ UNCHANGED <<pos, list, displayedList, source, target, supplied, page>>

\* Line 142, one iteration.
planRouteShift ==
    /\ pc = "loop"
    /\ Len(heap[source]) > 0
    /\ dest' = shiftClosestTruck(heap[source], dest).dest
    /\ heap' = [heap EXCEPT ![source] = shiftClosestTruck(heap[source], dest).source]
    /\ UNCHANGED <<pos, list, displayedList, source, ret, pc, target, supplied, page>>

\* Lines 142 (source is empty) and 144.
planRouteReturn ==
    /\ pc = "loop"
    /\ Len(heap[source]) = 0
    /\ ret' = RetArray(dest)
    /\ pc' = "returned"
    /\ UNCHANGED <<pos, heap, list, displayedList, source, dest, target, supplied, page>>

Next ==
    \/ planRouteEnter
    \/ planRouteMiddle
    \/ planRouteSecond
    \/ planRouteShift
    \/ planRouteReturn

Spec == Init /\ [][Next]_vars

----------------------------------------------------------------------------
(* middlePoint and closest called alone on an array of up to MaxPoints      *)
(* trucks and, for closest, any target of the grid.                         *)

\* The places of the grid and the points half way between two of them.
Targets ==
    {<<x, y>> : x \in {(Coord(a) + Coord(b)) \div 2 : a, b \in XS},
                y \in {(Coord(a) + Coord(b)) \div 2 : a, b \in SquareYS}}

FnInit ==
    /\ \E n \in 0..MaxPoints :
         /\ pos \in [1..n -> [x : {Coord(v) : v \in XS}, y : {Coord(v) : v \in SquareYS}]]
         /\ \E a \in {[i \in 1..n |-> i], [i \in 1..n |-> n + 1 - i]} :
              /\ heap = [r \in Refs |-> IF r = "arg" THEN a ELSE <<>>]
              /\ supplied = a
    /\ list = "arg"
    /\ displayedList = Undefined
    /\ source = NoRef
    /\ dest = <<>>
    /\ ret = Pending
    /\ pc = "call"
    /\ target = <<0, 0>>
    /\ fullList = Undefined
    /\ lines = <<>>
    /\ event = "none"

callMiddlePoint ==
    /\ pc = "call"
    /\ ret' = [kind |-> "point", val |-> middlePoint(heap[list])]
    /\ pc' = "middlePoint"
    /\ UNCHANGED <<pos, heap, list, displayedList, source, dest, target, supplied, page>>

callClosest ==
    /\ pc = "call"
    /\ \E t \in Targets :
         /\ target' = t
         /\ ret' = IF closest(heap[list], t).found
                   THEN [kind |-> "pair",
                         val |-> <<closest(heap[list], t).id, closest(heap[list], t).distance>>]
                   ELSE RetNull
    /\ pc' = "closest"
    /\ UNCHANGED <<pos, heap, list, displayedList, source, dest, supplied, page>>

FnNext ==
    \/ callMiddlePoint
    \/ callClosest

FnSpec == FnInit /\ [][FnNext]_vars

----------------------------------------------------------------------------
(* The page, lines 23-122: the fetch callback and the two listeners, each   *)
(* handler run as a whole.                                                  *)

PageRefs == {"full", "filtered", "route", "src"}

\* The arrays no global refers to any more are dropped.
Collect(h, keep) == [r \in PageRefs |-> IF r \in keep THEN h[r] ELSE <<>>]

\* Lines 126-145 on the heap: what the call gives back and the arrays after
\* it.  Line 132 reads displayedList before the first removal.
planRouteCall(h, d) ==
    IF d = Undefined THEN [ret |-> TypeError, heap |-> h]
    ELSE IF Len(h[d]) < 2 THEN [ret |-> RetUndefined, heap |-> h]
    ELSE LET copy == slice(h, d)
             middle == closest(copy.heap[copy.ref], middlePoint(copy.heap[d]))
             first == extract(copy.heap[copy.ref], middle.id)
             second == closest(first.rest, <<pos[first.item].x, pos[first.item].y>>)
             next == extract(first.rest, second.id)
         IN  [ret |-> RetArray(shiftAll(next.rest, <<first.item, next.item>>)),
              heap |-> [copy.heap EXCEPT ![copy.ref] = <<>>]]

\* Lines 115-122: the trucks of fullList whose text matches every token of
\* the search string; matching is the set of those trucks.
filterTrucks(full, matching) ==
    LET Keep[i \in 0..Len(full)] ==
            IF i = 0 THEN <<>>
            ELSE IF full[i] \in matching THEN Append(Keep[i-1], full[i]) ELSE Keep[i-1]
    IN  Keep[Len(full)]

\* Lines 98-110: the line element made for a segment.
drawRouteLine(x1, y1, x2, y2) == <<x1, y1, x2, y2>>

\* Lines 90-94: the line elements of the SVG after the loop.  lastX is
\* undefined before the first point, and `if (lastX)` is false for undefined
\* and for 0; every new line is put first (line 109).
showRoute(route) ==
    LET Draw[i \in 0..Len(route)] ==
            IF i <= 1 THEN <<>>
            ELSE IF pos[route[i-1]].x # 0
                 THEN <<drawRouteLine(pos[route[i-1]].x, pos[route[i-1]].y,
                                      pos[route[i]].x, pos[route[i]].y)>> \o Draw[i-1]
                 ELSE Draw[i-1]
    IN  Draw[Len(route)]

\* Lines 23-52 have run: the listeners are set and the fetch is under way.
\* supplied is the list the fetch will deliver.
PageInit ==
    /\ pos \in [Ids -> [x : {Coord(v) : v \in XS}, y : {Coord(v) : v \in YS}]]
    /\ heap = [r \in PageRefs |-> <<>>]
    /\ fullList = Undefined
    /\ displayedList = Undefined
    /\ supplied = [i \in Ids |-> i]
    /\ lines = <<>>
    /\ event = "none"
    /\ ret = Pending
    /\ list = Undefined
    /\ source = NoRef
    /\ dest = <<>>
    /\ pc = "page"
    /\ target = <<0, 0>>

\* Lines 33-36: the callback of the fetch; showTrucks empties the SVG.
fetchListThen ==
    /\ pc = "page"
    /\ fullList = Undefined
    /\ heap' = Collect([heap EXCEPT !["full"] = supplied], {"full"})
    /\ fullList' = "full"
    /\ displayedList' = "full"
    /\ lines' = <<>>
    /\ event' = "fetch"
    /\ ret' = RetUndefined
    /\ UNCHANGED <<pos, list, source, dest, pc, target, supplied>>

\* Lines 42-44: a key other than Enter.  fullList.filter throws a TypeError
\* while fullList is undefined.
keyupOther ==
    /\ pc = "page"
    /\ IF fullList = Undefined
       THEN /\ ret' = TypeError
            /\ UNCHANGED <<heap, displayedList, lines>>
       ELSE \E matching \in SUBSET Ids :
              /\ heap' = Collect([heap EXCEPT !["filtered"] = filterTrucks(heap[fullList], matching)],
                                 {fullList, "filtered"})
              /\ displayedList' = "filtered"
              /\ lines' = <<>>
              /\ ret' = RetUndefined
    /\ event' = "filter"
    /\ UNCHANGED <<pos, list, source, dest, pc, target, supplied, fullList>>

\* Lines 40-41 and 49-50: planRoute(displayedList), then showRoute.  A
\* TypeError in planRoute leaves displayedList as it was; line 88 removes
\* the lines before line 91 reads displayedList.
planAndShow ==
    LET call == planRouteCall(heap, displayedList)
    IN  /\ IF call.ret = TypeError
           THEN /\ ret' = TypeError
                /\ UNCHANGED <<heap, displayedList, lines>>
           ELSE IF call.ret = RetUndefined
           THEN /\ displayedList' = Undefined
                /\ heap' = Collect(call.heap, {fullList})
                /\ lines' = <<>>
                /\ ret' = TypeError
           ELSE /\ displayedList' = "route"
                /\ heap' = Collect([call.heap EXCEPT !["route"] = call.ret.val], {fullList, "route"})
                /\ lines' = showRoute(call.ret.val)
                /\ ret' = RetUndefined
        /\ event' = IF event \in {"plan", "replan"} THEN "replan" ELSE "plan"
        /\ UNCHANGED <<pos, list, source, dest, pc, target, supplied, fullList>>

\* Lines 38-41: keyup of Enter.
keyupEnter == pc = "page" /\ planAndShow

\* Lines 48-51: click on submit.
submitClick == pc = "page" /\ planAndShow

PageNext ==
    \/ fetchListThen
    \/ keyupOther
    \/ keyupEnter
    \/ submitClick

PageSpec == PageInit /\ [][PageNext]_vars

----------------------------------------------------------------------------
(* Properties.  Spec: the calls of planRoute.  FnSpec: middlePoint and      *)
(* closest alone.  PageSpec: the handlers of the page.                      *)

Finished == pc \in {"returned", "threw"}
At(id) == <<pos[id].x, pos[id].y>>
IsPermutation(s, t) == Len(s) = Len(t) /\ Range(s) = Range(t) /\ Injective(s)

\* A squared distance in pixels, in the model's unit.
Squared(v) == Coord(1) * Coord(1) * v

\* The step machine and the function planRoute agree on every call.
StepsAgree == Finished => ret = planRoute(supplied, GlobalValue(heap, displayedList))

\* C1: for every input list of 2 or more points, planRoute returns a
\* permutation of the input: same length, every input id exactly once.
C1_ReturnsPermutationOfInput ==
    (Finished /\ list # Undefined /\ Len(supplied) >= 2)
        => /\ ret.kind = "array"
           /\ Len(ret.val) = Len(supplied)
           /\ \A id \in Range(supplied) :
                Cardinality({i \in DOMAIN ret.val : ret.val[i] = id}) = 1

\* C1 witness: a call on three trucks has returned them in another order.
C1_Witness ==
    /\ pc = "returned"
    /\ Len(supplied) = 3
    /\ ret.kind = "array"
    /\ ret.val # supplied
    /\ Range(ret.val) = Range(supplied)

\* C2: planRoute on an empty list returns an empty route, and on a one-point
\* list a one-element or an empty sequence; it never faults.
C2_DegenerateInputDefined ==
    (Finished /\ list # Undefined /\ Len(supplied) < 2)
        => ret.kind = "array" /\ ret.val \in {supplied, <<>>}

\* C3: the array supplied by the caller holds the same trucks in the same
\* order, with the same id, x and y, throughout the call and after it.
C3_InputNotMutated == list # Undefined => heap[list] = supplied

\* C3 witness: the call has removed every truck from its pool and returned
\* them in another order than the caller's array, which is as it was.
C3_Witness ==
    /\ pc = "returned"
    /\ ret.kind = "array"
    /\ ret.val # supplied
    /\ heap[source] = <<>>
    /\ heap[list] = supplied

\* C4: on a non-empty list closest returns the id of a point at minimal
\* distance from the target, with that distance, and of the points at that
\* distance the one that comes first in the list.
C4_ClosestFirstMinimal ==
    (pc = "closest" /\ Len(supplied) > 0)
        => /\ ret.kind = "pair"
           /\ \E i \in DOMAIN supplied :
                /\ supplied[i] = ret.val[1]
                /\ ret.val[2] = distance(target, supplied[i])
                /\ \A j \in DOMAIN supplied : distance(target, supplied[j]) >= ret.val[2]
                /\ \A j \in 1..(i - 1) : distance(target, supplied[j]) > ret.val[2]

\* C4 witness: closest has answered on a list where a later point, at
\* another place, is exactly as near to the target as the one returned.
C4_Witness ==
    /\ pc = "closest"
    /\ ret.kind = "pair"
    /\ \E i, j \in DOMAIN supplied :
         /\ i < j
         /\ supplied[i] = ret.val[1]
         /\ distance(target, supplied[j]) = ret.val[2]
         /\ At(supplied[i]) # At(supplied[j])

C5_Prepended ==
    /\ pc = "loop"
    /\ Len(dest) = 3
    /\ dest[2] = closest(heap[displayedList], middlePoint(heap[displayedList])).id
    /\ At(dest[1]) # At(dest[2])

\* C6: the route returned is a function of the argument alone: a call with
\* the same argument returns the same whatever the global displayedList
\* holds at the time.
C6_FunctionOfArgumentAlone ==
    (Finished /\ list # Undefined) =>
        \A d \in {RetUndefined} \cup {RetArray(l) : l \in TruckLists(Ids)} :
            planRoute(supplied, d) = ret

\* No distance to the midpoint and no distance between two trucks is the
\* same as another, among the trucks of l.
NoTies(l) ==
    /\ \A a, b \in Range(l) : a # b => distance(middlePoint(l), a) # distance(middlePoint(l), b)
    /\ \A a, b, c, d \in Range(l) :
         (a # b /\ c # d /\ {a, b} # {c, d}) => distance(At(a), b) # distance(At(c), d)

\* C7: for an input of 2 or more points without ties planRoute returns the
\* same route for every ordering of the input, and for any input the same
\* route each time it is given the input in the same order.
C7_OrderOnlyThroughTies ==
    (Finished /\ list # Undefined /\ Len(supplied) >= 2)
        => /\ ret = planRoute(supplied, RetArray(supplied))
           /\ NoTies(supplied) =>
                \A q \in TruckLists(Range(supplied)) :
                    Len(q) = Len(supplied) => planRoute(q, RetArray(q)) = ret

\* C7 witness: a call on three trucks without ties has returned.
C7_Witness ==
    /\ pc = "returned"
    /\ Len(supplied) >= 3
    /\ NoTies(supplied)
    /\ ret.kind = "array"

\* C8: on a non-empty list middlePoint returns the centre of the bounding
\* box, ((minX+maxX)/2, (minY+maxY)/2); on the corners (0,0), (10,0), (0,10),
\* (10,10) it returns (5,5).
C8_BoundingBoxCentre ==
    (pc = "middlePoint" /\ Len(supplied) > 0)
        => /\ ret.kind = "point"
           /\ \E a, b, c, d \in Range(supplied) :
                /\ \A e \in Range(supplied) :
                     /\ pos[a].x <= pos[e].x /\ pos[e].x <= pos[b].x
                     /\ pos[c].y <= pos[e].y /\ pos[e].y <= pos[d].y
                /\ 2 * ret.val[1] = pos[a].x + pos[b].x
                /\ 2 * ret.val[2] = pos[c].y + pos[d].y
           /\ {At(e) : e \in Range(supplied)}
                  = {<<Coord(x), Coord(y)>> : x \in {0, 10}, y \in {0, 10}}
                => ret.val = <<Coord(5), Coord(5)>>

\* C8 witness: middlePoint has answered (5,5) on the four corners.
C8_Witness ==
    /\ pc = "middlePoint"
    /\ Len(supplied) = 4
    /\ {At(e) : e \in Range(supplied)} = {<<Coord(x), Coord(y)>> : x \in {0, 10}, y \in {0, 10}}
    /\ ret.val = <<Coord(5), Coord(5)>>

\* The known small case: A(0,0), B(10,0), C(5,1) are the trucks 1, 2, 3.
KnownCase ==
    /\ At(1) = <<Coord(0), Coord(0)>>
    /\ At(2) = <<Coord(10), Coord(0)>>
    /\ At(3) = <<Coord(5), Coord(1)>>
    /\ list # Undefined
    /\ supplied = <<1, 2, 3>>

\* C9: on A, B, C in that order planRoute seeds the route with C, then takes
\* A, tied with B, then finds B at sqrt(26) from the head C and at 10 from the
\* tail A, prepends it and returns [B, C, A].
C9_KnownSmallCase ==
    KnownCase =>
        /\ pc = "second" => dest = <<3>>
        /\ (pc = "second" \/ (pc = "loop" /\ Len(dest) = 2)) =>
               /\ distance(At(3), 1) = distance(At(3), 2)
               /\ distance(At(3), 2) = Squared(26)
               /\ distance(At(1), 2) = Squared(10 * 10)
        /\ (pc = "loop" /\ Len(dest) = 2) => dest = <<3, 1>>
        /\ (pc = "loop" /\ Len(dest) = 3) => dest = <<2, 3, 1>>
        /\ Finished => ret = RetArray(<<2, 3, 1>>)

\* C9 witness: the call on A, B, C has returned [B, C, A].
C9_Witness == KnownCase /\ pc = "returned" /\ ret = RetArray(<<2, 3, 1>>)

\* C10: after each removal of a call on 2 or more points, the pool and the
\* partial route share no point, together hold exactly the input points, and
\* their sizes add up to the input's.
C10_PoolAndRoutePartitionInput ==
    (pc \in {"second", "loop", "returned"} /\ source # NoRef /\ Len(supplied) >= 2)
        => /\ Range(heap[source]) \cap Range(dest) = {}
           /\ Range(heap[source]) \cup Range(dest) = Range(supplied)
           /\ Len(heap[source]) + Len(dest) = Len(supplied)

\* C10 witness: two trucks are in the route and a third is still in the pool.
C10_Witness == pc = "loop" /\ Len(dest) = 2 /\ Len(heap[source]) = 1

\* The call has just seeded its route: two removals, no extension yet.
Seeded == pc = "loop" /\ Len(dest) = 2 /\ Len(heap[source]) = Len(supplied) - 2

\* The centre of the bounding box of l, doubled.
TwiceCentre(l) ==
    <<SetMin({pos[e].x : e \in Range(l)}) + SetMax({pos[e].x : e \in Range(l)}),
      SetMin({pos[e].y : e \in Range(l)}) + SetMax({pos[e].y : e \in Range(l)})>>

\* Four times the squared distance of truck id to the point c / 2.
ToCentre(c, id) ==
    ((c[1] - 2 * pos[id].x) * (c[1] - 2 * pos[id].x))
        + ((c[2] - 2 * pos[id].y) * (c[2] - 2 * pos[id].y))

\* C11: on 2 or more points the route is seeded with the input point nearest
\* to the bounding-box midpoint of the whole input, then with the remaining
\* point nearest to that one; the seeded route has 2 elements with distinct
\* head and tail and the pool has n-2 points.
C11_SeededWithNearestToMidpoint ==
    LET c == TwiceCentre(supplied)
    IN  /\ (pc = "second" /\ Len(supplied) >= 2) =>
               /\ Len(dest) = 1
               /\ dest[1] \in Range(supplied)
               /\ \A e \in Range(supplied) : ToCentre(c, dest[1]) <= ToCentre(c, e)
               /\ Len(heap[source]) = Len(supplied) - 1
        /\ (pc = "loop" /\ Len(dest) = 2 /\ Len(supplied) >= 2) =>
               /\ dest[1] \in Range(supplied)
               /\ \A e \in Range(supplied) : ToCentre(c, dest[1]) <= ToCentre(c, e)
               /\ dest[2] \in Range(supplied) \ {dest[1]}
               /\ \A e \in Range(supplied) \ {dest[1]} :
                    distance(At(dest[1]), dest[2]) <= distance(At(dest[1]), e)
               /\ Len(heap[source]) = Len(supplied) - 2
        /\ (pc \in {"loop", "returned"} /\ source # NoRef /\ Len(supplied) >= 2) => Len(dest) >= 2

\* C11 witness: a call on three trucks has seeded its route with two trucks
\* that are not the first two of the input, one truck being left in the pool.
C11_Witness ==
    /\ Seeded
    /\ Len(supplied) = 3
    /\ dest # <<supplied[1], supplied[2]>>
    /\ Len(heap[source]) = 1

\* What is left to do in a call: the steps before the loop and one
\* iteration for each point of the pool.
Remaining ==
    IF Finished THEN 0
    ELSE IF pc = "call" THEN NumTrucks + 4
    ELSE Len(heap[source]) + (IF pc = "middle" THEN 3 ELSE IF pc = "second" THEN 2 ELSE 1)

\* C12: every call on n >= 2 points terminates: every step brings the call
\* nearer to its end; in the loop a non-empty pool gives up one point to the
\* route and an empty pool lets the call return; each iteration
\* removes exactly one point from the pool and adds exactly one to the
\* route, so the loop has run n-2 times when the pool is empty and the call
\* returns.
C12_Terminates ==
    /\ [](pc = "loop" =>
            IF Len(heap[source]) > 0
            THEN LET shifted == shiftClosestTruck(heap[source], dest)
                 IN  /\ Len(shifted.source) = Len(heap[source]) - 1
                     /\ Len(shifted.dest) = Len(dest) + 1
            ELSE ENABLED planRouteReturn)
    /\ [][Remaining' < Remaining /\ Remaining' >= 0]_vars
    /\ [][(pc = "loop" /\ Len(heap[source]) > 0) =>
            /\ Len(heap'[source]) = Len(heap[source]) - 1
            /\ Len(dest') = Len(dest) + 1
            /\ pc' = "loop"]_vars
    /\ []((pc = "returned" /\ list # Undefined /\ Len(supplied) >= 2) =>
            /\ heap[source] = <<>>
            /\ Len(dest) - 2 = Len(supplied) - 2
            /\ ret = RetArray(dest))

\* C12 witness: a call on three trucks has returned after one iteration.
C12_Witness ==
    /\ pc = "returned"
    /\ Len(supplied) = 3
    /\ heap[source] = <<>>
    /\ Len(dest) = 3

\* C13: in every extension step the route is kept as a contiguous run of the
\* new route, with one new point right before its head or right after its
\* tail; the seed and the second point stay adjacent, in that order, in the
\* final route; the pool never regains a point.
C13_GrowsAtEndsOnly ==
    /\ [][(pc = "loop" /\ Len(heap[source]) > 0) =>
            \E e \in Range(heap[source]) \ Range(dest) :
                dest' \in {<<e>> \o dest, Append(dest, e)}]_vars
    /\ [][(source # NoRef /\ source' = source) =>
            Range(heap'[source]) \subseteq Range(heap[source])]_vars
    /\ []((pc = "returned" /\ list # Undefined /\ Len(supplied) >= 2) =>
            \E i \in 1..(Len(ret.val) - 1) :
                /\ LET c == TwiceCentre(supplied)
                   IN  \A e \in Range(supplied) : ToCentre(c, ret.val[i]) <= ToCentre(c, e)
                /\ ret.val[i] = closest(supplied, middlePoint(supplied)).id
                /\ ret.val[i+1]
                     = closest(extract(supplied, ret.val[i]).rest, At(ret.val[i])).id)

\* C13 witness: the third truck was put before the seed pair, which is
\* still adjacent and in order behind it.
C13_Witness ==
    /\ pc = "returned"
    /\ Len(dest) = 3
    /\ dest[2] = closest(supplied, middlePoint(supplied)).id
    /\ At(dest[1]) # At(dest[2])

\* C14: closest on an empty list returns null; during a call on 2 or more
\* points closest is never called with an empty pool, neither in the two
\* seeding calls nor in shiftClosestTruck, so destructuring its result never
\* fails.
C14_ClosestNeverOnEmptyPool ==
    /\ [](\A t \in Targets : closest(<<>>, t) = Null)
    /\ []((list # Undefined /\ Len(supplied) >= 2) =>
            /\ pc \in {"middle", "second"} => Len(heap[source]) > 0
            /\ pc # "threw")
    /\ [][planRouteShift => Len(heap[source]) > 0]_vars

\* C14 witness: the second seeding call is about to search a pool of one.
C14_Witness == pc = "second" /\ Len(supplied) = 2 /\ Len(heap[source]) = 1

\* The list has loaded: the fetch callback has run.
Loaded == fullList # Undefined

\* C15: once the list has loaded, displayedList always holds a list of
\* distinct trucks taken from fullList, never undefined, and no handler
\* faults; also after Enter or click with fewer than 2 trucks displayed.
C15_DisplayedAlwaysTruckList ==
    Loaded =>
        /\ displayedList # Undefined
        /\ Injective(heap[displayedList])
        /\ Range(heap[displayedList]) \subseteq Range(heap[fullList])
        /\ ret # TypeError

\* C16: no keyup or click handler runs before the fetch callback has
\* assigned the two globals, so none faults on reading them.
C16_NoHandlerBeforeLoad ==
    ~Loaded => /\ event = "none"
               /\ ret # TypeError

\* The step is a second Enter or click with no filter change since the
\* first, on a displayed route.
Replanning ==
    /\ event \in {"plan", "replan"}
    /\ event' = "replan"
    /\ Loaded
    /\ displayedList = "route"

\* Planning the displayed route again leaves the route as it is.
SameRoute ==
    /\ displayedList' = "route"
    /\ heap'["route"] = heap["route"]

\* C17 as stated: a second Enter or click leaves the same route in the same
\* order for every displayed set of 2 or more trucks, tied distances
\* included.
C17_ReplanIdempotent == [][Replanning => SameRoute]_vars

\* C17: a second Enter or click with no filter change in between leaves the
\* same route in the same order when 2 trucks are displayed, or more of them
\* without tied distances.
C17_ReplanIdempotentWithoutTies ==
    [][(Replanning /\ (Len(heap["route"]) = 2 \/ NoTies(heap["route"]))) => SameRoute]_vars

\* C17 witness: a route of three trucks without tied distances has been
\* planned a second time.
C17_Witness ==
    /\ event = "replan"
    /\ displayedList = "route"
    /\ Len(heap["route"]) = 3
    /\ NoTies(heap["route"])
    /\ ret = RetUndefined

\* C18: after the list has loaded fullList holds the fetched trucks in the
\* fetched order, whatever keyups and clicks follow.
C18_FullListNeverChanged ==
    /\ [](Loaded => (fullList = "full" /\ heap[fullList] = supplied))
    /\ [][Loaded => (fullList' = fullList /\ heap'[fullList'] = heap[fullList])]_vars

\* C18 witness: all the trucks have been planned into a route of another
\* order than fullList, which is as fetched.
C18_Witness ==
    /\ event = "plan"
    /\ displayedList = "route"
    /\ Len(heap["route"]) = NumTrucks
    /\ heap["route"] # supplied
    /\ heap[fullList] = supplied

\* The segment between the i-th point of the route and the next.
Segment(route, i) ==
    drawRouteLine(pos[route[i]].x, pos[route[i]].y, pos[route[i+1]].x, pos[route[i+1]].y)

\* C19: after showRoute on a route of n >= 2 points the SVG holds exactly
\* n-1 lines, one for each pair of consecutive route elements, whatever the
\* coordinates, x = 0 included.
C19_DrawsEverySegment ==
    (event \in {"plan", "replan"} /\ displayedList = "route") =>
        LET route == heap["route"]
        IN  /\ Len(lines) = Len(route) - 1
            /\ \A i \in 1..(Len(route) - 1) : lines[Len(route) - i] = Segment(route, i)

====
